---- MODULE Spec2Model ----
(***************************************************************************)
(* Model of the task tracking and asset materialization engine of          *)
(* server.js: the task cache (taskCache), the active-poller map            *)
(* (activePolls), the per-task interval timers started by                  *)
(* startServerSidePoll, their asynchronous ticks, and the downloads of     *)
(* downloadAssetsForTask.                                                   *)
(*                                                                         *)
(* JavaScript runs every callback to its next await without interruption,  *)
(* so one action of the model is one such run: from a timer firing, or     *)
(* from the settling of an awaited promise, to the next await or return.   *)
(* setInterval neither awaits nor looks at the promise its async callback  *)
(* returns, so a timer that is not cleared may fire while earlier ticks    *)
(* are still awaiting.                                                      *)
(*                                                                         *)
(* Left out: the updatedAt timestamps (Date.now(), read by no decision),   *)
(* console logging, and the HTTP response bodies.                           *)
(***************************************************************************)
EXTENDS Integers, Sequences, FiniteSets, TLC

\* ------------------------------------------------------------------ bounds

\* Timers (pollers) created in a run, over all tasks.
MaxPollers == 3
\* Timer firings (ticks begun) in a run, over all timers.
MaxFired == 3
\* Ticks awaiting (a fetch or a download) at the same time, over all timers.
MaxInFlight == 2
\* Uncached status queries awaiting their upstream fetch at the same time.
MaxQueries == 1
\* The count of invocations of downloadAssetsForTask per task stops here.
MaxCount == 2

\* const maxAttempts = 120, scaled down so that the ceiling is reached.
maxAttempts == 2


Tasks == {"t1"}

\* ------------------------------------------------------- JavaScript values

Undef == [t |-> "undef"]
Null == [t |-> "null"]
Str(s) == [t |-> "str", v |-> s]
Num(n) == [t |-> "num", v |-> n]
Arr(q) == [t |-> "arr", v |-> q]
Obj(r) == [t |-> "obj", v |-> r]

\* JavaScript truthiness: every value but undefined, null, '' and 0.
Truthy(x) == x \notin {Undef, Null, Str(""), Num(0)}

\* a || b and a && b
Or(a, b) == IF Truthy(a) THEN a ELSE b
And(a, b) == IF Truthy(a) THEN b ELSE a

\* o?.f : undefined unless o is an object with the property f.
Get(o, f) == IF o.t = "obj" /\ f \in DOMAIN o.v THEN o.v[f] ELSE Undef

\* Array.isArray
IsArray(x) == x.t = "arr"

\* String.prototype.toUpperCase on the strings of the model.
ToUpperCase(s) ==
    CASE s = "success" -> "SUCCESS"
      [] s = "pending" -> "PENDING"
      [] OTHER -> s

\* ------------------------------------------------------ Response Normalizer

FINAL_STATUSES == {"SUCCESS", "FIRST_SUCCESS"}
ERROR_STATUSES == {"CREATE_TASK_FAILED", "GENERATE_AUDIO_FAILED",
                   "SENSITIVE_WORD_ERROR", "CALLBACK_EXCEPTION"}

\* Set.prototype.has on a set of strings
Has(S, x) == x.t = "str" /\ x.v \in S

getStatusFromKieResp(kieResp) ==
    LET data == Or(Get(kieResp, "data"), kieResp)
        status == Or(Or(Get(data, "status"), Get(Get(data, "response"), "status")),
                     And(Get(kieResp, "data"), Get(Get(kieResp, "data"), "status")))
    IN  IF status.t = "str" THEN Str(ToUpperCase(status.v)) ELSE Null

extractSunoData(kieResp) ==
    LET data == Or(Get(kieResp, "data"), kieResp)
        s == Or(Or(Or(Get(Get(data, "response"), "sunoData"), Get(data, "sunoData")),
                   Get(data, "response")),
                Get(Get(Get(data, "data"), "response"), "sunoData"))
        maybe == Or(Get(Get(kieResp, "data"), "data"), Get(Get(kieResp, "data"), "response"))
    IN  IF IsArray(s) THEN s
        ELSE IF Truthy(Get(maybe, "sunoData")) THEN Get(maybe, "sunoData")
        ELSE Arr(<<>>)

\* getStatusFromKieResp(kieResp) || 'UNKNOWN'
StatusOf(kieResp) == Or(getStatusFromKieResp(kieResp), Str("UNKNOWN"))

\* ------------------------------------------------------- upstream payloads

\* Per-track records of response.sunoData. The first has an audio URL and a
\* title; the second has no title, a source audio URL that new URL() rejects and
\* a source cover, named by an alternate field, whose URL has no extension.
Track1 == Obj([audioUrl |-> Str("https://cdn/a.mp3"),
               title |-> Str("a/b")])
Track2 == Obj([sourceAudioUrl |-> Str("not a url"),
               source_image_url |-> Str("https://cdn/b")])

StatusPayload(s) == Obj([code |-> Num(200), data |-> Obj([status |-> Str(s)])])
SuccessPayload(s, tracks) ==
    Obj([code |-> Num(200),
         data |-> Obj([status |-> Str(s), response |-> Obj([sunoData |-> Arr(tracks)])])])

\* What GET record-info may answer: r.data of kieRecordInfo.
Payloads ==
    {StatusPayload("PENDING"),
     SuccessPayload("SUCCESS", <<Track1, Track2>>),
     SuccessPayload("FIRST_SUCCESS", <<Track1>>),
     Obj([code |-> Num(500)])}
    \cup {StatusPayload(s) : s \in ERROR_STATUSES}

\* --------------------------------------------------------- Asset Materializer

\* new URL(u).pathname's extension, for the URLs new URL() accepts.
UrlExt ==
    [u \in {"https://cdn/a.mp3", "https://cdn/b"} |->
        IF u = "https://cdn/a.mp3" THEN ".mp3" ELSE ""]

\* new URL(u) does not throw
ValidUrl(u) == u.t = "str" /\ u.v \in DOMAIN UrlExt

\* .replace(/[\/\\?%*:|"<>]/g, '-').slice(0,100) on the titles of the model
Sanitize(s) == IF s = "a/b" THEN "a-b" ELSE s

\* `track_${i+1}` (i is 1-based here)
TrackName(i) ==
    CASE i = 1 -> "track_1"
      [] i = 2 -> "track_2"
      [] OTHER -> "track_n"

safeTitle(it, i) ==
    LET title == Get(it, "title")
    IN  IF Truthy(title) /\ title.t = "str" THEN Sanitize(title.v) ELSE TrackName(i)

\* sunoDataArray[i] || {}
ItemAt(arr, i) == Or(arr.v[i], Obj(<<>>))

\* The three download sites of one loop iteration: audio, source audio, cover.
imageUrlOf(it) == Or(Get(it, "imageUrl"), Get(it, "image_url"))

SlotUrl(it, k) ==
    CASE k = 1 -> Or(Or(Or(Get(it, "audioUrl"), Get(it, "audio_url")),
                        Get(it, "streamAudioUrl")), Get(it, "stream_audio_url"))
      [] k = 2 -> Or(Get(it, "sourceAudioUrl"), Get(it, "source_audio_url"))
      [] OTHER -> IF Truthy(imageUrlOf(it)) THEN imageUrlOf(it)
                  ELSE Or(Get(it, "sourceImageUrl"), Get(it, "source_image_url"))

SlotType(it, k) ==
    CASE k = 1 -> "audio"
      [] k = 2 -> "audio_source"
      [] OTHER -> IF Truthy(imageUrlOf(it)) THEN "cover" ELSE "cover_source"

SlotSuffix(it, k) ==
    CASE k = 1 -> ""
      [] k = 2 -> "_source"
      [] OTHER -> IF Truthy(imageUrlOf(it)) THEN "_cover" ELSE "_cover_source"

DefaultExt(k) == IF k \in {1, 2} THEN ".mp3" ELSE ".png"

\* `${prefix}${suffix}${ext}`, kept as its parts
FileName(it, i, k) ==
    LET ext == UrlExt[SlotUrl(it, k).v]
    IN  [ord |-> i, title |-> safeTitle(it, i), suffix |-> SlotSuffix(it, k),
         ext |-> IF ext = "" THEN DefaultExt(k) ELSE ext]

\* path.join(taskDir, fname)
OutPath(taskId, it, i, k) == [dir |-> taskId, name |-> FileName(it, i, k)]

\* the descriptor pushed to saved
Descriptor(taskId, it, i, k) ==
    [type |-> SlotType(it, k), path |-> OutPath(taskId, it, i, k), name |-> FileName(it, i, k)]

\* A download site is attempted when its URL is truthy and new URL() accepts it.
Attempted(it, k) == Truthy(SlotUrl(it, k)) /\ ValidUrl(SlotUrl(it, k))

\* fs.existsSync(outPath) && fs.statSync(outPath).size > 0
ExistsNonEmpty(files, out) == out \in DOMAIN files /\ files[out] = "data"

\* One invocation of downloadAssetsForTask, between its awaits: the loop position
\* (asset i, download site k), the files saved so far and, for the properties, the
\* sites that succeeded (ok), failed (failed) and the remote downloads issued.
NoRun == [taskId |-> "", arr |-> Undef, i |-> 0, k |-> 0, saved |-> <<>>,
          ok |-> {}, failed |-> {}, fetched |-> 0, pre |-> FALSE]

\* How an awaited remote download (axios.get piped into the write stream) settles:
\* "ok" the stream closed; "neterr" axios.get rejected (network failure, non-2xx);
\* "partial" the write stream raised 'error' after bytes had been written.
DownloadOutcomes == {"ok", "neterr", "partial"}

\* The loop of downloadAssetsForTask from position (r.i, r.k) up to its next await
\* of a remote download, or to its return. downloadFileToPath returns at once for
\* a file that exists and is non-empty; otherwise fs.createWriteStream leaves an
\* empty file at outPath and the function awaits axios.get.
\* const x = v; ... : F of the value of v. The name is bound to the value, not to
\* the expression, which is then evaluated once however often F uses it.
Const(v, F(_)) == CHOOSE c \in {F(x) : x \in {v}} : TRUE

RECURSIVE Continue(_, _)
Continue(run, fsys) ==
    Const(run, LAMBDA r : Const(fsys, LAMBDA files :
        IF r.i > Len(r.arr.v) THEN [pc |-> "done", run |-> r, files |-> files]
        ELSE IF r.k > 3 THEN Continue([r EXCEPT !.i = @ + 1, !.k = 1], files)
        ELSE Const(ItemAt(r.arr, r.i), LAMBDA it :
             IF ~Attempted(it, r.k) THEN Continue([r EXCEPT !.k = @ + 1], files)
             ELSE Const(OutPath(r.taskId, it, r.i, r.k), LAMBDA out :
                  IF ExistsNonEmpty(files, out)
                  THEN Continue([r EXCEPT !.saved = Append(@, Descriptor(r.taskId, it, r.i, r.k)),
                                          !.ok = @ \cup {<<r.i, r.k>>},
                                          !.k = @ + 1], files)
                  ELSE [pc |-> "await",
                        run |-> [r EXCEPT !.fetched = @ + 1],
                        files |-> [x \in DOMAIN files \cup {out} |->
                                      IF x = out THEN "empty" ELSE files[x]]]))))

\* A settled download whose failure ends the loop instead of being swallowed.
SettleAborting(run, fsys, outcome) ==
    Const(run, LAMBDA r : Const(fsys, LAMBDA files :
    Const(ItemAt(r.arr, r.i), LAMBDA it :
    Const(OutPath(r.taskId, it, r.i, r.k), LAMBDA out :
        IF outcome = "ok"
        THEN Continue([r EXCEPT !.saved = Append(@, Descriptor(r.taskId, it, r.i, r.k)),
                                !.ok = @ \cup {<<r.i, r.k>>},
                                !.k = @ + 1],
                      [files EXCEPT ![out] = "data"])
        ELSE Continue([r EXCEPT !.failed = @ \cup {<<r.i, r.k>>}, !.i = Len(r.arr.v) + 1],
                      files)))))

\* The download awaited at (r.i, r.k) settles: on success the file has its data
\* and its descriptor is pushed; a failure is caught by the site's try/catch and
\* the loop goes on with the next site.
Settle(run, fsys, outcome) ==
    Const(run, LAMBDA r : Const(fsys, LAMBDA files :
    Const(ItemAt(r.arr, r.i), LAMBDA it :
    Const(OutPath(r.taskId, it, r.i, r.k), LAMBDA out :
        CASE outcome = "ok" ->
               Continue([r EXCEPT !.saved = Append(@, Descriptor(r.taskId, it, r.i, r.k)),
                                  !.ok = @ \cup {<<r.i, r.k>>},
                                  !.k = @ + 1],
                        [files EXCEPT ![out] = "data"])
          [] outcome = "neterr" ->
               Continue([r EXCEPT !.failed = @ \cup {<<r.i, r.k>>}, !.k = @ + 1], files)
          [] OTHER ->
               Continue([r EXCEPT !.failed = @ \cup {<<r.i, r.k>>}, !.k = @ + 1],
                        [files EXCEPT ![out] = "data"])))))

\* The destination files of an asset list: one per attempted download site.
Sites(arr) ==
    IF IsArray(arr)
    THEN {ik \in (1..Len(arr.v)) \X (1..3) : Attempted(ItemAt(arr, ik[1]), ik[2])}
    ELSE {}

DestPath(taskId, arr, ik) == OutPath(taskId, ItemAt(arr, ik[1]), ik[1], ik[2])

\* downloadAssetsForTask(taskId, sunoDataArray) up to its first await or its
\* return. pre is carried for the properties only.
downloadAssetsForTask(taskId, sunoDataArray, files, taskDirs, pre) ==
    LET r0 == [NoRun EXCEPT !.taskId = taskId, !.arr = sunoDataArray, !.i = 1, !.k = 1,
                            !.pre = pre]
    IN  IF ~IsArray(sunoDataArray) \/ Len(sunoDataArray.v) = 0
        THEN [pc |-> "done", run |-> r0, files |-> files, dirs |-> taskDirs]
        ELSE LET c == Continue(r0, files)
             IN  [pc |-> c.pc, run |-> c.run, files |-> c.files,
                  dirs |-> taskDirs \cup {taskId}]

\* -------------------------------------------------------------------- state

VARIABLES
    taskCache,      \* taskId -> entry, for the ids the Map holds
    activePolls,    \* taskId -> {timer, attempts: 0}, for the ids the Map holds
    timers,         \* the interval timers created: their closure (taskId, attempts) and whether cleared
    ticks,          \* the interval callbacks that are awaiting
    pendingGets,    \* taskId -> GET /api/task requests awaiting kieRecordInfo
    fs,             \* the files under DOWNLOAD_DIR: path -> "empty" | "data"
    dirs,           \* the task directories under DOWNLOAD_DIR
    lastRun,        \* taskId -> the asset list and result of the invocation of downloadAssetsForTask that returned last
    fired,          \* how many ticks have begun
    dlCalls,        \* taskId -> how often downloadAssetsForTask was invoked (up to MaxCount)
    last,           \* the step taken last: the tick steps and the answers of GET /api/task in full, any other as Other
    normalized      \* a payload handed to the Response Normalizer on its own, and what it returned

vars == <<taskCache, activePolls, timers, ticks, pendingGets, fs, dirs, lastRun, fired, dlCalls, last,
          normalized>>

\* taskCache.get(taskId) || {}
EmptyEntry == [lastRaw |-> Undef, status |-> Undef, sunoData |-> Undef,
               downloaded |-> FALSE, localFiles |-> <<>>]
EntryOrEmpty(cache, taskId) == IF taskId \in DOMAIN cache THEN cache[taskId] ELSE EmptyEntry

\* Map.prototype.set / delete
MapSet(m, key, val) == [x \in DOMAIN m \cup {key} |-> IF x = key THEN val ELSE m[x]]
MapDelete(m, key) == [x \in DOMAIN m \ {key} |-> m[x]]

Ev(op, task, timer, n, status) ==
    [op |-> op, task |-> task, timer |-> timer, n |-> n, status |-> status, low |-> 0,
     done |-> FALSE, run |-> NoRun, same |-> FALSE, code |-> 0]

\* A step the properties do not single out.
Other == Ev("other", "", 0, 0, Undef)

\* No payload is handed to the Response Normalizer on its own.
NoPayload == [pc |-> "none"]

Init ==
    /\ taskCache = <<>>
    /\ activePolls = <<>>
    /\ timers = <<>>
    /\ ticks = {}
    /\ pendingGets = [t \in Tasks |-> 0]
    /\ fs = <<>>
    /\ dirs = {}
    /\ lastRun = <<>>
    /\ fired = 0
    /\ dlCalls = [t \in Tasks |-> 0]
    /\ last = Other
    /\ normalized = NoPayload

\* ---------------------------------------------------------- Poll Scheduler

\* The timer whose callback a tick is, and the task of its closure.
TaskOf(p) == timers[p].taskId

\* The stop test without its error statuses.
StopsOnCeilingOnly(status, attempts) == attempts >= maxAttempts

\* The stop test without its ceiling.
StopsOnErrorOnly(status, attempts) == Has(ERROR_STATUSES, status)

\* if (ERROR_STATUSES.has(status) || attempts >= maxAttempts)
StopsOnStatus(status, attempts) == Has(ERROR_STATUSES, status) \/ attempts >= maxAttempts

\* A catch block that stops the poller on any failure.
StopsOnAnyFailure(attempts) == TRUE

\* catch (err) { if (attempts >= maxAttempts) ... }
StopsOnFailure(attempts) == attempts >= maxAttempts

\* clearInterval(timer)
ClearInterval(tm, p) == [tm EXCEPT ![p].cleared = TRUE]

\* A cleared timer none of whose callbacks is awaiting is unreachable: its closure
\* is garbage, and is reset so that states differing only in garbage are one state.
Collect(tm, tks) ==
    [p \in DOMAIN tm |->
        IF tm[p].cleared /\ ~\E tk \in tks : tk.timer = p
        THEN [tm[p] EXCEPT !.attempts = 0, !.low = 0]
        ELSE tm[p]]

\* startServerSidePoll(taskId), called with the cache as `cache`.
startServerSidePoll(taskId, cache) ==
    IF taskId = "" \/ taskId \in DOMAIN activePolls
    THEN /\ taskCache' = cache
         /\ UNCHANGED <<activePolls, timers>>
    ELSE /\ Len(timers) < MaxPollers
         /\ taskCache' = IF taskId \in DOMAIN cache THEN cache
                         ELSE MapSet(cache, taskId,
                                     [lastRaw |-> Null, status |-> Null, sunoData |-> Undef,
                                      downloaded |-> FALSE, localFiles |-> <<>>])
         /\ timers' = Append(timers, [taskId |-> taskId, attempts |-> 0, cleared |-> FALSE,
                                      low |-> 0])
         /\ activePolls' = MapSet(activePolls, taskId, [timer |-> Len(timers) + 1, attempts |-> 0])

\* A submission route (POST /api/generate, /api/extend, ...): upstream answered
\* with taskId and the route starts polling it.
SubmitTask(taskId) ==
    /\ startServerSidePoll(taskId, taskCache)
    /\ last' = IF timers' = timers THEN last ELSE Other
    /\ UNCHANGED <<ticks, pendingGets, fs, dirs, lastRun, fired, dlCalls, normalized>>

\* GET /api/task/:taskId with a cached entry: answered from the cache with
\* status: cached.status.
GetTaskCached(taskId) ==
    /\ taskId \in DOMAIN taskCache
    /\ last' = [Ev("getCached", taskId, 0, 0, taskCache[taskId].status) EXCEPT !.code = 200]
    /\ UNCHANGED <<taskCache, activePolls, timers, ticks, pendingGets, fs, dirs, lastRun, fired, dlCalls, normalized>>

\* A handler that asks upstream whether or not the entry is cached.
GetTaskBeginAlways(taskId) ==
    /\ pendingGets[taskId] < MaxQueries
    /\ pendingGets' = [pendingGets EXCEPT ![taskId] = @ + 1]
    /\ last' = Ev("getBegin", taskId, 0, 0, Undef)
    /\ UNCHANGED <<taskCache, activePolls, timers, ticks, fs, dirs, lastRun, fired, dlCalls, normalized>>

\* GET /api/task/:taskId without a cached entry: awaits kieRecordInfo.
GetTaskBegin(taskId) ==
    /\ taskId \notin DOMAIN taskCache
    /\ pendingGets[taskId] < MaxQueries
    /\ pendingGets' = [pendingGets EXCEPT ![taskId] = @ + 1]
    /\ last' = Ev("getBegin", taskId, 0, 0, Undef)
    /\ UNCHANGED <<taskCache, activePolls, timers, ticks, fs, dirs, lastRun, fired, dlCalls, normalized>>

\* ... kieRecordInfo answered: the entry is set and polling started.
GetTaskReturn(taskId, r) ==
    /\ pendingGets[taskId] > 0
    /\ pendingGets' = [pendingGets EXCEPT ![taskId] = @ - 1]
    /\ startServerSidePoll(taskId,
           MapSet(taskCache, taskId,
                  [lastRaw |-> r, status |-> StatusOf(r), sunoData |-> extractSunoData(r),
                   downloaded |-> FALSE, localFiles |-> <<>>]))
    /\ last' = [Ev("getReturn", taskId, 0, 0, StatusOf(r)) EXCEPT !.code = 200]
    /\ UNCHANGED <<ticks, fs, dirs, lastRun, fired, dlCalls, normalized>>

\* A catch that leaves an entry behind for the task.
GetTaskFailRecording(taskId) ==
    /\ pendingGets[taskId] > 0
    /\ pendingGets' = [pendingGets EXCEPT ![taskId] = @ - 1]
    /\ taskCache' = MapSet(taskCache, taskId, EntryOrEmpty(taskCache, taskId))
    /\ last' = [Ev("getFail", taskId, 0, 0, Undef) EXCEPT !.code = 500]
    /\ UNCHANGED <<activePolls, timers, ticks, fs, dirs, lastRun, fired, dlCalls, normalized>>

\* ... kieRecordInfo threw: res.status(500).
GetTaskFail(taskId) ==
    /\ pendingGets[taskId] > 0
    /\ pendingGets' = [pendingGets EXCEPT ![taskId] = @ - 1]
    /\ last' = [Ev("getFail", taskId, 0, 0, Undef) EXCEPT !.code = 500]
    /\ UNCHANGED <<taskCache, activePolls, timers, ticks, fs, dirs, lastRun, fired, dlCalls, normalized>>

\* The interval fires: attempts++, then the callback awaits kieRecordInfo.
TickBegin(p) ==
    /\ p \in 1..Len(timers)
    /\ ~timers[p].cleared
    /\ fired < MaxFired
    /\ fired' = fired + 1
    /\ Cardinality(ticks) < MaxInFlight
    /\ timers' = [timers EXCEPT ![p].attempts = @ + 1]
    /\ ticks' = ticks \cup {[timer |-> p, n |-> timers[p].attempts + 1, pc |-> "fetch", run |-> NoRun]}
    /\ last' = Other
    /\ UNCHANGED <<taskCache, activePolls, pendingGets, fs, dirs, lastRun, dlCalls, normalized>>

\* An update that stores the files and forgets the flag.
markFilesOnly(cache, taskId, saved) ==
    MapSet(cache, taskId, [EntryOrEmpty(cache, taskId) EXCEPT !.localFiles = saved])

\* entry.downloaded = true; entry.localFiles = saved
markDownloaded(cache, taskId, saved) ==
    MapSet(cache, taskId,
           [EntryOrEmpty(cache, taskId) EXCEPT !.downloaded = TRUE, !.localFiles = saved])

\* Whether every destination file of the asset list exists and is non-empty, the
\* invocation that returned last for the task had the same asset list, and no
\* other invocation for the task is awaiting.
IsRerun(taskId, arr, files) ==
    /\ taskId \in DOMAIN lastRun
    /\ ~\E tk \in ticks : tk.pc = "download" /\ tk.run.taskId = taskId
    /\ lastRun[taskId].arr = arr
    /\ \A ik \in Sites(arr) : ExistsNonEmpty(files, DestPath(taskId, arr, ik))

SameAsLastRun(taskId, saved) == taskId \in DOMAIN lastRun /\ lastRun[taskId].saved = saved

\* The awaited kieRecordInfo of a tick answers kieResp: the rest of the try block,
\* up to the first awaited download when the status is final.
TickFetchReturn(tk, kieResp) ==
    /\ tk \in ticks
    /\ tk.pc = "fetch"
    /\ UNCHANGED <<pendingGets, fired, normalized>>
    /\ \E status \in {StatusOf(kieResp)}, sunoData \in {extractSunoData(kieResp)} :
       LET p == tk.timer
           taskId == TaskOf(p)
           cache1 == MapSet(taskCache, taskId,
                            [EntryOrEmpty(taskCache, taskId) EXCEPT
                                !.lastRaw = kieResp, !.status = status, !.sunoData = sunoData])
           low1 == IF status = Str("PENDING") /\ tk.n <= maxAttempts
                   THEN timers[p].low + 1 ELSE timers[p].low
           ev == [Ev("tickReturn", taskId, p, tk.n, status) EXCEPT !.low = low1]
       IN  IF Has(FINAL_STATUSES, status)
           THEN /\ activePolls' = MapDelete(activePolls, taskId)
                /\ dlCalls' = [dlCalls EXCEPT ![taskId] = IF @ < MaxCount THEN @ + 1 ELSE @]
                /\ \E d \in {downloadAssetsForTask(taskId, sunoData, fs, dirs,
                                                    IsRerun(taskId, sunoData, fs))} :
                   /\ fs' = d.files
                   /\ dirs' = d.dirs
                   /\ IF d.pc = "done"
                      THEN /\ taskCache' = markDownloaded(cache1, taskId, d.run.saved)
                           /\ ticks' = ticks \ {tk}
                           /\ lastRun' = MapSet(lastRun, taskId, [arr |-> sunoData, saved |-> d.run.saved])
                           /\ last' = [ev EXCEPT !.done = TRUE, !.run = d.run,
                                                 !.same = SameAsLastRun(taskId, d.run.saved)]
                      ELSE /\ taskCache' = cache1
                           /\ ticks' = (ticks \ {tk}) \cup {[tk EXCEPT !.pc = "download", !.run = d.run]}
                           /\ lastRun' = lastRun
                           /\ last' = ev
                   /\ timers' = Collect(ClearInterval(timers, p), ticks')
           ELSE /\ taskCache' = cache1
                /\ ticks' = ticks \ {tk}
                /\ last' = ev
                /\ IF StopsOnStatus(status, timers[p].attempts)
                   THEN /\ timers' = Collect(ClearInterval([timers EXCEPT ![p].low = low1], p), ticks')
                        /\ activePolls' = MapDelete(activePolls, taskId)
                   ELSE /\ timers' = Collect([timers EXCEPT ![p].low = low1], ticks')
                        /\ activePolls' = activePolls
                /\ UNCHANGED <<fs, dirs, lastRun, dlCalls>>

\* The awaited kieRecordInfo of a tick throws: the catch block.
TickFetchFail(tk) ==
    /\ tk \in ticks
    /\ tk.pc = "fetch"
    /\ ticks' = ticks \ {tk}
    /\ LET p == tk.timer
       IN  /\ IF StopsOnFailure(timers[p].attempts)
              THEN /\ timers' = Collect(ClearInterval(timers, p), ticks')
                   /\ activePolls' = MapDelete(activePolls, TaskOf(p))
              ELSE /\ timers' = Collect(timers, ticks')
                   /\ activePolls' = activePolls
           /\ last' = Ev("tickFail", TaskOf(p), p, tk.n, Undef)
    /\ UNCHANGED <<taskCache, pendingGets, fs, dirs, lastRun, fired, dlCalls, normalized>>

\* The download a tick awaits settles: the loop goes on to the next awaited
\* download, or downloadAssetsForTask returns and the entry is marked downloaded.
DownloadSettle(tk, outcome) ==
    /\ tk \in ticks
    /\ tk.pc = "download"
    /\ UNCHANGED <<activePolls, pendingGets, dirs, fired, dlCalls, normalized>>
    /\ \E c \in {Settle(tk.run, fs, outcome)} :
       LET taskId == tk.run.taskId
       IN  /\ fs' = c.files
           /\ IF c.pc = "done"
              THEN /\ taskCache' = markDownloaded(taskCache, taskId, c.run.saved)
                   /\ ticks' = ticks \ {tk}
                   /\ lastRun' = MapSet(lastRun, taskId, [arr |-> c.run.arr, saved |-> c.run.saved])
                   /\ last' = [Ev("settle", taskId, tk.timer, tk.n, Undef) EXCEPT
                                  !.done = TRUE, !.run = c.run,
                                  !.same = SameAsLastRun(taskId, c.run.saved)]
              ELSE /\ ticks' = (ticks \ {tk}) \cup {[tk EXCEPT !.run = c.run]}
                   /\ last' = Ev("settle", taskId, tk.timer, tk.n, Undef)
                   /\ UNCHANGED <<taskCache, lastRun>>
    /\ timers' = Collect(timers, ticks')

Next ==
    \/ \E taskId \in Tasks : SubmitTask(taskId)
    \/ \E taskId \in Tasks : GetTaskCached(taskId)
    \/ \E taskId \in Tasks : GetTaskBegin(taskId)
    \/ \E taskId \in Tasks, r \in Payloads : GetTaskReturn(taskId, r)
    \/ \E taskId \in Tasks : GetTaskFail(taskId)
    \/ \E p \in 1..MaxPollers : TickBegin(p)
    \/ \E tk \in ticks, kieResp \in Payloads : TickFetchReturn(tk, kieResp)
    \/ \E tk \in ticks : TickFetchFail(tk)
    \/ \E tk \in ticks, outcome \in DownloadOutcomes : DownloadSettle(tk, outcome)

Spec == Init /\ [][Next]_vars

\* ------------------------------------------------------------ properties

ActiveTimers(taskId) ==
    {p \in 1..Len(timers) : timers[p].taskId = taskId /\ ~timers[p].cleared}

\* C1: for every task id there is at most one active poller (a timer created by
\* startServerSidePoll and not yet cleared), whatever the interleaving of start
\* requests and ticks.
C1_AtMostOneActivePoller == \A taskId \in Tasks : Cardinality(ActiveTimers(taskId)) <= 1

\* C2: for every task id, downloadAssetsForTask is invoked at most once in total.
C2_MaterializedAtMostOnce == \A taskId \in Tasks : dlCalls[taskId] <= 1

\* C3: no two ticks of one poller are awaiting (their fetch or their downloads)
\* at the same time.
C3_TicksSequential == \A a, b \in ticks : a.timer = b.timer => a = b

\* C4: for every task id at most one invocation of downloadAssetsForTask is in
\* flight.
C4_OneMaterializerInFlight ==
    \A a, b \in ticks :
        (a.pc = "download" /\ b.pc = "download" /\ a.run.taskId = b.run.taskId) => a = b

\* C5: the ticks that begin for one poller (each issues one upstream query) never
\* number more than maxAttempts.
C5_AttemptBudget == \A p \in 1..Len(timers) : timers[p].attempts <= maxAttempts

\* C6: when every tick of a poller up to and including the one that reaches the
\* ceiling has observed PENDING, the poller is stopped and no tick of that poller
\* invokes downloadAssetsForTask.
C6_CeilingWhilePending ==
    /\ \A p \in 1..Len(timers) : timers[p].low = maxAttempts => timers[p].cleared
    /\ (last.op = "tickReturn" /\ Has(FINAL_STATUSES, last.status)) => last.low < maxAttempts

\* C7: when the first tick of a poller observes a terminal-error status, that step
\* clears the timer and removes the handle, records the status in the entry,
\* leaves downloaded and localFiles as they were, does not invoke
\* downloadAssetsForTask and creates no directory or file.
C7_ErrorOnFirstTick ==
    [][(last'.op = "tickReturn" /\ last'.n = 1 /\ Has(ERROR_STATUSES, last'.status)) =>
          /\ timers'[last'.timer].cleared
          /\ last'.task \notin DOMAIN activePolls'
          /\ taskCache'[last'.task].status = last'.status
          /\ taskCache'[last'.task].downloaded = EntryOrEmpty(taskCache, last'.task).downloaded
          /\ taskCache'[last'.task].localFiles = EntryOrEmpty(taskCache, last'.task).localFiles
          /\ dlCalls' = dlCalls
          /\ dirs' = dirs
          /\ fs' = fs
          /\ ~\E tk \in ticks' : tk.timer = last'.timer /\ tk.n = 1]_vars

C7_Witness ==
    /\ last.op = "tickReturn"
    /\ last.n = 1
    /\ last.status = Str("SENSITIVE_WORD_ERROR")
    /\ timers[last.timer].cleared
    /\ last.task \notin DOMAIN activePolls
    /\ ~taskCache[last.task].downloaded
    /\ last.task \notin dirs

\* C8: a tick whose fetch throws while the timer is active and the attempt counter
\* is below the ceiling leaves the timer active and the handle registered, and the
\* attempt the tick counted stays counted.
C8_FetchFailureKeepsPolling ==
    [][(/\ last'.op = "tickFail"
        /\ ~timers[last'.timer].cleared
        /\ timers[last'.timer].attempts < maxAttempts) =>
          /\ ~timers'[last'.timer].cleared
          /\ activePolls' = activePolls
          /\ timers'[last'.timer].attempts = timers[last'.timer].attempts
          /\ last'.n \in 1..timers'[last'.timer].attempts]_vars

C8_Witness ==
    /\ last.op = "tickFail"
    /\ ~timers[last.timer].cleared
    /\ timers[last.timer].attempts < maxAttempts
    /\ last.task \in DOMAIN activePolls
    /\ activePolls[last.task].timer = last.timer

\* The descriptors of the download sites okSites, in the order of the loop.
RECURSIVE SavedFrom(_, _, _, _)
SavedFrom(taskId, arr, okSites, n) ==
    IF ~IsArray(arr) \/ n > 3 * Len(arr.v) THEN <<>>
    ELSE LET i == ((n - 1) \div 3) + 1
             k == ((n - 1) % 3) + 1
         IN  (IF <<i, k>> \in okSites
              THEN <<Descriptor(taskId, ItemAt(arr, i), i, k)>>
              ELSE <<>>) \o SavedFrom(taskId, arr, okSites, n + 1)

\* C9: when downloadAssetsForTask returns, every download site of the asset list
\* has been tried whether or not others failed, the result is the descriptors of
\* the sites that succeeded, in order, and the entry has downloaded = true and
\* that result as localFiles.
C9_PerAssetIsolation ==
    last.done =>
        /\ last.run.ok \cup last.run.failed = Sites(last.run.arr)
        /\ last.run.ok \cap last.run.failed = {}
        /\ last.run.saved = SavedFrom(last.task, last.run.arr, last.run.ok, 1)
        /\ taskCache[last.task].downloaded
        /\ taskCache[last.task].localFiles = last.run.saved

\* A failed site is followed by one that succeeded.
C9_Witness ==
    /\ last.done
    /\ \E f \in last.run.failed, g \in last.run.ok : f[1] < g[1]
    /\ Len(last.run.saved) = 1
    /\ taskCache[last.task].downloaded

\* C10: an invocation of downloadAssetsForTask with the task id and asset list of
\* the invocation that returned before it, begun when every destination file
\* exists and is non-empty, downloads nothing and returns the same sequence.
C10_Idempotent == (last.done /\ last.run.pre) => (last.run.fetched = 0 /\ last.same)

\* C11: a GET /api/task for a task with an entry is answered from the entry: it
\* asks upstream nothing, starts no poller and leaves the entry as it was. Only a
\* GET for a task without an entry asks upstream, once; when upstream answers, the
\* entry holds the answer's status and the task has a handle.
C11_CachedQueryIsFrameOnly ==
    [][/\ last'.op = "getCached" =>
              /\ last'.task \in DOMAIN taskCache
              /\ last'.status = taskCache[last'.task].status
              /\ UNCHANGED <<taskCache, activePolls, timers, ticks, pendingGets, fs, dirs>>
       /\ last'.op = "getBegin" =>
              /\ last'.task \notin DOMAIN taskCache
              /\ pendingGets'[last'.task] = pendingGets[last'.task] + 1
              /\ UNCHANGED <<taskCache, activePolls, timers, ticks>>
       /\ last'.op = "getReturn" =>
              /\ pendingGets'[last'.task] = pendingGets[last'.task] - 1
              /\ last'.task \in DOMAIN taskCache'
              /\ taskCache'[last'.task].status = last'.status
              /\ last'.task \in DOMAIN activePolls'
              /\ ~timers'[activePolls'[last'.task].timer].cleared]_vars

\* A GET answered from an entry that a poller has completed.
C11_Witness ==
    /\ last.op = "getCached"
    /\ last.code = 200
    /\ last.status = Str("SUCCESS")
    /\ taskCache[last.task].downloaded
    /\ pendingGets[last.task] = 0
    /\ last.task \notin DOMAIN activePolls

\* C12: for every task, downloaded is set to true at most once and, once true, is
\* never false again: no step takes it from true to false, and no step that marks
\* the entry downloaded finds it already marked.
C12_DownloadedOnceAndForAll ==
    [][/\ \A t \in DOMAIN taskCache :
              taskCache[t].downloaded => (t \in DOMAIN taskCache' /\ taskCache'[t].downloaded)
       /\ last'.done => ~EntryOrEmpty(taskCache, last'.task).downloaded]_vars

\* C13: every entry with downloaded = false has an empty localFiles.
C13_FilesOnlyWhenDownloaded ==
    \A t \in DOMAIN taskCache : ~taskCache[t].downloaded => taskCache[t].localFiles = <<>>

\* An entry that was marked downloaded with files and has been replaced by the
\* answer of a GET: both fields are back at their initial values.
C13_Witness ==
    /\ last.op = "getReturn"
    /\ last.task \in DOMAIN lastRun
    /\ lastRun[last.task].saved # <<>>
    /\ ~taskCache[last.task].downloaded
    /\ taskCache[last.task].localFiles = <<>>

\* C14: the status of every entry, and so the status a GET /api/task answers with,
\* is an upper-case status string (UNKNOWN when upstream reports none): it is never
\* null or absent, from the moment the entry exists.
C14_StatusCanonical ==
    /\ \A t \in DOMAIN taskCache :
           /\ taskCache[t].status.t = "str"
           /\ taskCache[t].status.v # ""
           /\ taskCache[t].status.v = ToUpperCase(taskCache[t].status.v)
    /\ last.op \in {"getCached", "getReturn"} => last.status.t = "str"

\* ----------------------------------------- the Response Normalizer on its own

\* Values found where upstream's envelope has a status or a track list: absent,
\* null, of the wrong type, empty, or as documented.
StatusShapes == {Undef, Null, Str(""), Str("success"), Num(5)}
AssetShapes == {Undef, Null, Arr(<<>>), Arr(<<Track1>>), Str("N/A"), Obj([id |-> Num(1)])}
ResponseShapes ==
    {Undef, Arr(<<Track1>>)} \cup
    {Obj([status |-> s, sunoData |-> a]) : s \in {Undef, Str("pending")}, a \in AssetShapes}
DataShapes ==
    {Obj([status |-> s, response |-> r, sunoData |-> a]) :
        s \in StatusShapes, r \in ResponseShapes, a \in AssetShapes}

\* What kieRecordInfo may return as r.data: nothing, a scalar, the envelope
\* { data: ... }, its content without the envelope, or the content one level deeper.
MalformedPayloads ==
    {Undef, Null, Str(""), Num(0)} \cup
    DataShapes \cup
    {Obj([code |-> Num(200), data |-> d]) : d \in DataShapes} \cup
    {Obj([data |-> Obj([data |-> Obj([response |-> Obj([sunoData |-> a])])])]) : a \in AssetShapes}

InitNormalizer ==
    /\ taskCache = <<>>
    /\ activePolls = <<>>
    /\ timers = <<>>
    /\ ticks = {}
    /\ pendingGets = [t \in Tasks |-> 0]
    /\ fs = <<>>
    /\ dirs = {}
    /\ lastRun = <<>>
    /\ fired = 0
    /\ dlCalls = [t \in Tasks |-> 0]
    /\ last = Other
    /\ \E kieResp \in MalformedPayloads : normalized = [pc |-> "in", raw |-> kieResp]

\* const status = getStatusFromKieResp(kieResp) || 'UNKNOWN';
\* const sunoData = extractSunoData(kieResp);
Normalize ==
    /\ normalized.pc = "in"
    /\ normalized' = [pc |-> "out", raw |-> normalized.raw,
                      status |-> StatusOf(normalized.raw),
                      sunoData |-> extractSunoData(normalized.raw)]
    /\ UNCHANGED <<taskCache, activePolls, timers, ticks, pendingGets, fs, dirs, lastRun, fired,
                   dlCalls, last>>

SpecNormalizer == InitNormalizer /\ [][Normalize]_vars

\* C15: for every payload, well-formed or not, the status the normalizer yields is
\* a non-empty upper-case string (UNKNOWN when none is found) and the track list it
\* yields is an array (empty when no array is found at the probed paths).
C15_NormalizerTotal ==
    normalized.pc = "out" =>
        /\ normalized.status.t = "str"
        /\ normalized.status.v # ""
        /\ normalized.status.v = ToUpperCase(normalized.status.v)
        /\ IsArray(normalized.sunoData)

\* -------------------------------------------------------------- fairness

\* setInterval fires a timer that is not cleared, again and again.
TimerFires == \E p \in 1..MaxPollers : TickBegin(p)

\* The fetch a tick awaits settles: axios answers, throws or times out (20 s).
FetchSettles ==
    \E tk \in ticks : TickFetchFail(tk) \/ \E kieResp \in Payloads : TickFetchReturn(tk, kieResp)

\* The download a tick awaits settles, one way or the other.
DownloadSettles == \E tk \in ticks, outcome \in DownloadOutcomes : DownloadSettle(tk, outcome)

\* The pollers without GET /api/task, which starts them as a submission does.
NextPolling ==
    \/ \E taskId \in Tasks : SubmitTask(taskId)
    \/ TimerFires
    \/ FetchSettles
    \/ DownloadSettles

SpecLive ==
    /\ Init
    /\ [][NextPolling]_vars
    /\ WF_vars(TimerFires)
    /\ WF_vars(FetchSettles)
    /\ WF_vars(DownloadSettles)

C17_EveryPollerStops ==
    \A p \in 1..MaxPollers :
        (p <= Len(timers) /\ ~timers[p].cleared)
            ~> /\ p <= Len(timers)
               /\ \/ /\ timers[p].cleared
                     /\ ~(TaskOf(p) \in DOMAIN activePolls /\ activePolls[TaskOf(p)].timer = p)
                  \/ fired = MaxFired /\ timers[p].attempts < maxAttempts

\* A poller whose ticks saw PENDING up to the ceiling: timer cleared and handle
\* gone, before the run's ticks are used up.
C17_Witness ==
    /\ last.op = "tickReturn"
    /\ last.status = Str("PENDING")
    /\ last.n = maxAttempts
    /\ timers[last.timer].cleared
    /\ last.task \notin DOMAIN activePolls
    /\ fired < MaxFired

\* C18: when a tick has recorded a terminal status for a task and stopped the
\* poller, a tick of the task that completes next leaves the entry's status and
\* sunoData as they were recorded.
C18_TerminalStatusFinal ==
    [][(/\ last.op = "tickReturn"
        /\ Has(FINAL_STATUSES, last.status) \/ Has(ERROR_STATUSES, last.status)
        /\ timers[last.timer].cleared
        /\ last.task \notin DOMAIN activePolls
        /\ taskCache[last.task].status = last.status
        /\ last'.op = "tickReturn"
        /\ last'.task = last.task)
           => /\ taskCache'[last.task].status = taskCache[last.task].status
              /\ taskCache'[last.task].sunoData = taskCache[last.task].sunoData]_vars

\* C19: a task has a handle in activePolls exactly when one of its timers is
\* not cleared, and the handle is that of a timer of the task that is not cleared.
C19_HandleIffActiveTimer ==
    \A t \in Tasks :
        /\ t \in DOMAIN activePolls
               <=> \E p \in 1..Len(timers) : TaskOf(p) = t /\ ~timers[p].cleared
        /\ t \in DOMAIN activePolls =>
               /\ activePolls[t].timer \in 1..Len(timers)
               /\ TaskOf(activePolls[t].timer) = t
               /\ ~timers[activePolls[t].timer].cleared

\* C20: the GET whose upstream fetch fails answers 500 and changes neither the
\* entries, the handles, the timers, the ticks in flight nor the files.
C20_FailedQueryChangesNothing ==
    [][last'.op = "getFail" =>
           /\ last'.code = 500
           /\ pendingGets[last'.task] > 0
           /\ UNCHANGED <<taskCache, activePolls, timers, ticks, fs, dirs>>]_vars

\* A failed GET for a task that has neither an entry nor a poller afterwards.
C20_Witness ==
    /\ last.op = "getFail"
    /\ last.code = 500
    /\ last.task \notin DOMAIN taskCache
    /\ last.task \notin DOMAIN activePolls
    /\ timers = <<>>
====
